---- MODULE Spec2Model ----
(***************************************************************************)
(* bank-api: the balance operations BankAccountServiceImp.Deposit,         *)
(* BankAccountServiceImp.Withdraw and TransferServiceImp.Transfer, the     *)
(* user directory (UserServiceImp.GetByID, Update, InsertBankAccount) and  *)
(* the AuthTodo gate, running as concurrent request goroutines against the *)
(* bank_accounts, users and secrets tables.                                *)
(* Every database statement is one atomic step; the Go statements between  *)
(* two database statements are local and are folded into the next one.     *)
(***************************************************************************)
EXTENDS Integers, FiniteSets, Sequences, TLC

\* ------------------------------------------------------------------ bounds
\* Number of request goroutines that can be inside a service call at once.
NumProcs == 2
\* Amounts a request body can carry: -MaxAmount .. MaxAmount.
MaxAmount == 2
\* Total number of service calls in one behaviour of Spec / SpecSerial.
MaxCalls == 2
\* Largest balance an account holds when a concurrent scenario starts.
MaxBalance == 2

Procs == 1..NumProcs
NoProc == 0

\* Rows of bank_accounts that exist; ids and account numbers requests use.
\* Id 3 and number "Z" belong to no row.
RowIDs == {1, 2}
RequestIDs == {1, 2, 3}
RequestNumbers == {"A", "B", "Z"}
NumberOfRow == (1 :> "A") @@ (2 :> "B")
Amounts == (0 - MaxAmount)..MaxAmount

VARIABLES
    bank_accounts,  \* the table: row id -> the row's columns
    bankMu,         \* BankAccountServiceImp.mu: holder, or NoProc
    transferMu,     \* TransferServiceImp.mu: holder, or NoProc
    pc,             \* position of each request goroutine
    call,           \* the service call each goroutine is in, with its arguments
    local,          \* the call's local variables and its returned error
    calls,          \* number of service calls made so far
    pre,            \* history: the balances when the latest call was made
    build,          \* the source file the running server was built from
    users,          \* the users table: row id -> [first_name, last_name]
    userMu,         \* UserServiceImp.mu: holder, or NoProc
    secrets,        \* the secrets table: the keys it stores
    nextId          \* the next value of the sequence behind bank_accounts.id

\* The state of the user directory and of the authentication gate.
dirVars == <<build, users, userMu, secrets, nextId>>

vars == <<bank_accounts, bankMu, transferMu, pc, call, local, calls, pre,
          build, users, userMu, secrets, nextId>>

NoCall == [op |-> "none", id |-> 0, from |-> "", to |-> "", amount |-> 0]
NoLocal == [balance |-> 0, from_balance |-> 0, to_balance |-> 0, err |-> "nil"]

\* The errors the service methods return.
ErrNoRows == "sql: no rows in result set"
ErrBalanceLess == "Balance less than amount"
ErrStorage == "storage failure"

Balances == [id \in DOMAIN bank_accounts |-> bank_accounts[id].balance]

\* SELECT * FROM bank_accounts WHERE id = $1: the ids of the rows it yields.
SelectByID(id) == {r \in DOMAIN bank_accounts : r = id}

\* SELECT * FROM bank_accounts WHERE account_number = $1.
SelectByAccountNumber(n) ==
    {r \in DOMAIN bank_accounts : bank_accounts[r].account_number = n}

UpdateBalanceByID_NoWhere(id, b) ==
    [r \in DOMAIN bank_accounts |-> [bank_accounts[r] EXCEPT !.balance = b]]

\* UPDATE bank_accounts SET balance = $2 WHERE id = $1: the table afterwards.
\* No row matching is not an error: the statement then changes nothing.
UpdateBalanceByID(id, b) ==
    [r \in DOMAIN bank_accounts |->
        IF r = id THEN [bank_accounts[r] EXCEPT !.balance = b]
                  ELSE bank_accounts[r]]

\* UPDATE bank_accounts SET balance = $2 WHERE account_number = $1.
UpdateBalanceByAccountNumber(n, b) ==
    [r \in DOMAIN bank_accounts |->
        IF bank_accounts[r].account_number = n
            THEN [bank_accounts[r] EXCEPT !.balance = b]
            ELSE bank_accounts[r]]

\* A row of bank_accounts that existed before the server started: it belongs
\* to user 1 and was created at time 0.
Row(n, b) ==
    [account_number |-> n, balance |-> b, balance_null |-> FALSE, user_id |-> 1,
     account_name |-> "AnnLee", created_at |-> 0, updated_at |-> 0]

\* The server with the balance operations is the one built from part_000; the
\* users and secrets tables hold one row each.
InitDirectory ==
    /\ users = (1 :> [first_name |-> "Ann", last_name |-> "Lee"])
    /\ userMu = NoProc
    /\ secrets = {"k1"}
    /\ nextId = Cardinality(RowIDs) + 1

Goto(p, label) == pc' = [pc EXCEPT ![p] = label]
SetLocal(p, l) == local' = [local EXCEPT ![p] = l]

Init ==
    /\ bank_accounts = [r \in RowIDs |-> Row(NumberOfRow[r], 0)]
    /\ bankMu = NoProc
    /\ transferMu = NoProc
    /\ pc = [p \in Procs |-> "idle"]
    /\ call = [p \in Procs |-> NoCall]
    /\ local = [p \in Procs |-> NoLocal]
    /\ calls = 0
    /\ pre = [r \in RowIDs |-> 0]
    /\ build = "part_000"
    /\ InitDirectory

\* ------------------------------------------------------------------ calls
\* The handlers DepositByID, WithdrawByID and Transfer pass the path id and the
\* body's amount (any integer) straight to the service method.
DepositCalls == [op : {"Deposit"}, id : RequestIDs, from : {""}, to : {""}, amount : Amounts]
WithdrawCalls == [op : {"Withdraw"}, id : RequestIDs, from : {""}, to : {""}, amount : Amounts]
TransferCalls == [op : {"Transfer"}, id : {0}, from : RequestNumbers, to : RequestNumbers, amount : Amounts]
AllCalls == DepositCalls \cup WithdrawCalls \cup TransferCalls

\* Where a method starts: at its s.mu.Lock().
EntryLabel(op) ==
    CASE op = "Deposit" -> "Deposit_Lock"
      [] op = "Withdraw" -> "Withdraw_Lock"
      [] op = "Transfer" -> "Transfer_Lock"

Call(p) ==
    /\ pc[p] \in {"idle", "done"}
    /\ calls < MaxCalls
    /\ \E c \in AllCalls :
        /\ call' = [call EXCEPT ![p] = c]
        /\ Goto(p, EntryLabel(c.op))
    /\ SetLocal(p, NoLocal)
    /\ calls' = calls + 1
    /\ pre' = Balances
    /\ UNCHANGED <<bank_accounts, bankMu, transferMu>>
    /\ UNCHANGED dirVars

\* c.ShouldBindJSON fails on a malformed body: the handler aborts with 400
\* and does not call the service.
ErrBind == "json: wrong params"

BadBody(p) ==
    /\ pc[p] \in {"idle", "done"}
    /\ calls < MaxCalls
    /\ \E op \in {"Deposit", "Withdraw", "Transfer"}, id \in RequestIDs :
        call' = [call EXCEPT ![p] =
                    [op |-> op, id |-> IF op = "Transfer" THEN 0 ELSE id,
                     from |-> "", to |-> "", amount |-> 0]]
    /\ SetLocal(p, [NoLocal EXCEPT !.err = ErrBind])
    /\ Goto(p, "done")
    /\ calls' = calls + 1
    /\ pre' = Balances
    /\ UNCHANGED <<bank_accounts, bankMu, transferMu>>
    /\ UNCHANGED dirVars

\* ---------------------------------------------------------------- Deposit
DepositLock_NoMutex(p) ==
    /\ pc[p] = "Deposit_Lock"
    /\ bankMu' = p
    /\ Goto(p, "Deposit_Select")
    /\ UNCHANGED <<bank_accounts, transferMu, call, local, calls, pre>>
    /\ UNCHANGED dirVars

DepositLock(p) ==
    /\ pc[p] = "Deposit_Lock"
    /\ bankMu = NoProc
    /\ bankMu' = p
    /\ Goto(p, "Deposit_Select")
    /\ UNCHANGED <<bank_accounts, transferMu, call, local, calls, pre>>
    /\ UNCHANGED dirVars

DepositSelect(p) ==
    /\ pc[p] = "Deposit_Select"
    /\ \E ok \in BOOLEAN :
        IF ~ok
            THEN SetLocal(p, [local[p] EXCEPT !.err = ErrStorage]) /\ Goto(p, "Return")
        ELSE IF SelectByID(call[p].id) = {}
            THEN SetLocal(p, [local[p] EXCEPT !.err = ErrNoRows]) /\ Goto(p, "Return")
        ELSE /\ SetLocal(p, [local[p] EXCEPT !.balance = bank_accounts[call[p].id].balance])
             /\ Goto(p, "Deposit_Update")
    /\ UNCHANGED <<bank_accounts, bankMu, transferMu, call, calls, pre>>
    /\ UNCHANGED dirVars

DepositUpdate(p) ==
    /\ pc[p] = "Deposit_Update"
    /\ LET b == local[p].balance + call[p].amount IN
       \E ok \in BOOLEAN :
        IF ok
            THEN /\ bank_accounts' = UpdateBalanceByID(call[p].id, b)
                 /\ SetLocal(p, [local[p] EXCEPT !.balance = b])
            ELSE /\ UNCHANGED bank_accounts
                 /\ SetLocal(p, [local[p] EXCEPT !.balance = b, !.err = ErrStorage])
    /\ Goto(p, "Return")
    /\ UNCHANGED <<bankMu, transferMu, call, calls, pre>>
    /\ UNCHANGED dirVars

\* --------------------------------------------------------------- Withdraw
WithdrawLock(p) ==
    /\ pc[p] = "Withdraw_Lock"
    /\ bankMu = NoProc
    /\ bankMu' = p
    /\ Goto(p, "Withdraw_Select")
    /\ UNCHANGED <<bank_accounts, transferMu, call, local, calls, pre>>
    /\ UNCHANGED dirVars

WithdrawSelect(p) ==
    /\ pc[p] = "Withdraw_Select"
    /\ \E ok \in BOOLEAN :
        IF ~ok
            THEN SetLocal(p, [local[p] EXCEPT !.err = ErrStorage]) /\ Goto(p, "Return")
        ELSE IF SelectByID(call[p].id) = {}
            THEN SetLocal(p, [local[p] EXCEPT !.err = ErrNoRows]) /\ Goto(p, "Return")
        ELSE /\ SetLocal(p, [local[p] EXCEPT !.balance = bank_accounts[call[p].id].balance])
             /\ Goto(p, "Withdraw_Update")
    /\ UNCHANGED <<bank_accounts, bankMu, transferMu, call, calls, pre>>
    /\ UNCHANGED dirVars

WithdrawUpdate(p) ==
    /\ pc[p] = "Withdraw_Update"
    /\ LET b == local[p].balance - call[p].amount IN
       \E ok \in BOOLEAN :
        IF ok
            THEN /\ bank_accounts' = UpdateBalanceByID(call[p].id, b)
                 /\ SetLocal(p, [local[p] EXCEPT !.balance = b])
            ELSE /\ UNCHANGED bank_accounts
                 /\ SetLocal(p, [local[p] EXCEPT !.balance = b, !.err = ErrStorage])
    /\ Goto(p, "Return")
    /\ UNCHANGED <<bankMu, transferMu, call, calls, pre>>
    /\ UNCHANGED dirVars

\* --------------------------------------------------------------- Transfer
TransferLock_NoMutex(p) ==
    /\ pc[p] = "Transfer_Lock"
    /\ transferMu' = p
    /\ Goto(p, "Transfer_SelectFrom")
    /\ UNCHANGED <<bank_accounts, bankMu, call, local, calls, pre>>
    /\ UNCHANGED dirVars

TransferLock(p) ==
    /\ pc[p] = "Transfer_Lock"
    /\ transferMu = NoProc
    /\ transferMu' = p
    /\ Goto(p, "Transfer_SelectFrom")
    /\ UNCHANGED <<bank_accounts, bankMu, call, local, calls, pre>>
    /\ UNCHANGED dirVars

TransferSelectFrom(p) ==
    /\ pc[p] = "Transfer_SelectFrom"
    /\ LET rows == SelectByAccountNumber(call[p].from) IN
       \E ok \in BOOLEAN :
        IF ~ok
            THEN SetLocal(p, [local[p] EXCEPT !.err = ErrStorage]) /\ Goto(p, "Return")
        ELSE IF rows = {}
            THEN SetLocal(p, [local[p] EXCEPT !.err = ErrNoRows]) /\ Goto(p, "Return")
        ELSE /\ \E r \in rows :
                    SetLocal(p, [local[p] EXCEPT !.from_balance = bank_accounts[r].balance])
             /\ Goto(p, "Transfer_SelectTo")
    /\ UNCHANGED <<bank_accounts, bankMu, transferMu, call, calls, pre>>
    /\ UNCHANGED dirVars

TransferSelectTo_NoCheck(p) ==
    /\ pc[p] = "Transfer_SelectTo"
    /\ LET rows == SelectByAccountNumber(call[p].to) IN
       \E ok \in BOOLEAN :
        IF ~ok
            THEN SetLocal(p, [local[p] EXCEPT !.err = ErrStorage]) /\ Goto(p, "Return")
        ELSE IF rows = {}
            THEN UNCHANGED local /\ Goto(p, "Transfer_Debit")
        ELSE /\ \E r \in rows :
                    SetLocal(p, [local[p] EXCEPT !.to_balance = bank_accounts[r].balance])
             /\ Goto(p, "Transfer_Debit")
    /\ UNCHANGED <<bank_accounts, bankMu, transferMu, call, calls, pre>>
    /\ UNCHANGED dirVars

TransferSelectTo(p) ==
    /\ pc[p] = "Transfer_SelectTo"
    /\ LET rows == SelectByAccountNumber(call[p].to) IN
       \E ok \in BOOLEAN :
        IF ~ok
            THEN SetLocal(p, [local[p] EXCEPT !.err = ErrStorage]) /\ Goto(p, "Return")
        ELSE IF rows = {}
            THEN SetLocal(p, [local[p] EXCEPT !.err = ErrNoRows]) /\ Goto(p, "Return")
        ELSE /\ \E r \in rows :
                    SetLocal(p, [local[p] EXCEPT !.to_balance = bank_accounts[r].balance])
             /\ Goto(p, "Transfer_Debit")
    /\ UNCHANGED <<bank_accounts, bankMu, transferMu, call, calls, pre>>
    /\ UNCHANGED dirVars

TransferDebit_OffByOne(p) ==
    /\ pc[p] = "Transfer_Debit"
    /\ IF local[p].from_balance <= call[p].amount
        THEN /\ SetLocal(p, [local[p] EXCEPT !.err = ErrBalanceLess])
             /\ Goto(p, "Return")
             /\ UNCHANGED bank_accounts
        ELSE LET b == local[p].from_balance - call[p].amount IN
             \E ok \in BOOLEAN :
                IF ok
                    THEN /\ bank_accounts' = UpdateBalanceByAccountNumber(call[p].from, b)
                         /\ SetLocal(p, [local[p] EXCEPT !.from_balance = b])
                         /\ Goto(p, "Transfer_Credit")
                    ELSE /\ UNCHANGED bank_accounts
                         /\ SetLocal(p, [local[p] EXCEPT !.from_balance = b, !.err = ErrStorage])
                         /\ Goto(p, "Return")
    /\ UNCHANGED <<bankMu, transferMu, call, calls, pre>>
    /\ UNCHANGED dirVars

\* The balance check, then the UPDATE of the source row.
TransferDebit(p) ==
    /\ pc[p] = "Transfer_Debit"
    /\ IF local[p].from_balance < call[p].amount
        THEN /\ SetLocal(p, [local[p] EXCEPT !.err = ErrBalanceLess])
             /\ Goto(p, "Return")
             /\ UNCHANGED bank_accounts
        ELSE LET b == local[p].from_balance - call[p].amount IN
             \E ok \in BOOLEAN :
                IF ok
                    THEN /\ bank_accounts' = UpdateBalanceByAccountNumber(call[p].from, b)
                         /\ SetLocal(p, [local[p] EXCEPT !.from_balance = b])
                         /\ Goto(p, "Transfer_Credit")
                    ELSE /\ UNCHANGED bank_accounts
                         /\ SetLocal(p, [local[p] EXCEPT !.from_balance = b, !.err = ErrStorage])
                         /\ Goto(p, "Return")
    /\ UNCHANGED <<bankMu, transferMu, call, calls, pre>>
    /\ UNCHANGED dirVars

\* The UPDATE of the destination row, from the balance read before the debit.
TransferCredit(p) ==
    /\ pc[p] = "Transfer_Credit"
    /\ LET b == local[p].to_balance + call[p].amount IN
       \E ok \in BOOLEAN :
        IF ok
            THEN /\ bank_accounts' = UpdateBalanceByAccountNumber(call[p].to, b)
                 /\ SetLocal(p, [local[p] EXCEPT !.to_balance = b])
            ELSE /\ UNCHANGED bank_accounts
                 /\ SetLocal(p, [local[p] EXCEPT !.to_balance = b, !.err = ErrStorage])
    /\ Goto(p, "Return")
    /\ UNCHANGED <<bankMu, transferMu, call, calls, pre>>
    /\ UNCHANGED dirVars

\* ----------------------------------------------------------------- return
\* The deferred s.mu.Unlock() of the method, then the return to the handler.
Return(p) ==
    /\ pc[p] = "Return"
    /\ IF call[p].op = "Transfer"
        THEN transferMu' = NoProc /\ UNCHANGED bankMu
        ELSE bankMu' = NoProc /\ UNCHANGED transferMu
    /\ Goto(p, "done")
    /\ UNCHANGED <<bank_accounts, call, local, calls, pre>>
    /\ UNCHANGED dirVars

\* One step of a call in progress.
Work(p) ==
    \/ DepositLock(p) \/ DepositSelect(p) \/ DepositUpdate(p)
    \/ WithdrawLock(p) \/ WithdrawSelect(p) \/ WithdrawUpdate(p)
    \/ TransferLock(p) \/ TransferSelectFrom(p) \/ TransferSelectTo(p)
    \/ TransferDebit(p) \/ TransferCredit(p)
    \/ Return(p)

Next == \E p \in Procs : Call(p) \/ BadBody(p) \/ Work(p)

Spec == Init /\ [][Next]_vars

\* A single caller: one service call at a time, never two in progress.
NextSerial == Call(1) \/ BadBody(1) \/ Work(1)

SpecSerial == Init /\ [][NextSerial]_vars

\* ------------------------------------------------- concurrent scenarios
\* Every goroutine has been handed the same Deposit(id, a), a > 0, on an
\* existing account that holds b; no other call is made.
InitDeposits ==
    \E id \in RowIDs, b \in 0..MaxBalance, a \in 1..MaxAmount :
        /\ bank_accounts = [r \in RowIDs |->
                Row(NumberOfRow[r], IF r = id THEN b ELSE 0)]
        /\ bankMu = NoProc
        /\ transferMu = NoProc
        /\ pc = [p \in Procs |-> "Deposit_Lock"]
        /\ call = [p \in Procs |->
                [op |-> "Deposit", id |-> id, from |-> "", to |-> "", amount |-> a]]
        /\ local = [p \in Procs |-> NoLocal]
        /\ calls = NumProcs
        /\ pre = [r \in RowIDs |-> IF r = id THEN b ELSE 0]
        /\ build = "part_000"
        /\ InitDirectory

NextDeposits ==
    \E p \in Procs : DepositLock(p) \/ DepositSelect(p) \/ DepositUpdate(p) \/ Return(p)

SpecDeposits == InitDeposits /\ [][NextDeposits]_vars

\* Two goroutines, each handed one well-formed call (existing accounts, amount
\* > 0, from # to) on accounts that already hold some balance.
PairCalls ==
    {c \in AllCalls :
        /\ c.amount > 0
        /\ c.op \in {"Deposit", "Withdraw"} => c.id \in RowIDs
        /\ c.op = "Transfer" =>
              /\ c.from # c.to
              /\ \E r \in RowIDs : NumberOfRow[r] = c.from
              /\ \E r \in RowIDs : NumberOfRow[r] = c.to}

InitPair ==
    \E x \in 0..MaxBalance, y \in 0..MaxBalance, c1 \in PairCalls, c2 \in PairCalls :
        /\ bank_accounts = [r \in RowIDs |->
                Row(NumberOfRow[r], IF r = 1 THEN x ELSE y)]
        /\ bankMu = NoProc
        /\ transferMu = NoProc
        /\ call = [p \in Procs |-> IF p = 1 THEN c1 ELSE IF p = 2 THEN c2 ELSE NoCall]
        /\ pc = [p \in Procs |->
                IF p = 1 THEN EntryLabel(c1.op) ELSE IF p = 2 THEN EntryLabel(c2.op) ELSE "idle"]
        /\ local = [p \in Procs |-> NoLocal]
        /\ calls = 2
        /\ pre = [r \in RowIDs |-> IF r = 1 THEN x ELSE y]
        /\ build = "part_000"
        /\ InitDirectory

NextPair == \E p \in Procs : Work(p)

SpecPair == InitPair /\ [][NextPair]_vars

\* sync.Mutex hands a released mutex to a waiting goroutine and the scheduler
\* runs every runnable goroutine: a step that stays possible is taken.
FairPair == SpecPair /\ \A p \in Procs : WF_vars(Work(p))

\* ---------------------------------------- account deletion and Transfer
\* DELETE FROM bank_accounts WHERE id = $1: the table afterwards.  No row
\* matching is not an error.
DeleteByID(id) == [r \in DOMAIN bank_accounts \ {id} |-> bank_accounts[r]]

DeleteCalls == [op : {"Delete"}, id : RequestIDs, from : {""}, to : {""}, amount : {0}]

\* s.mu.Lock() of DeleteAccountByBankAccountID: the mutex of
\* BankAccountServiceImp, not the one Transfer takes.
DeleteLock(p) ==
    /\ pc[p] = "Delete_Lock"
    /\ bankMu = NoProc
    /\ bankMu' = p
    /\ Goto(p, "Delete_Exec")
    /\ UNCHANGED <<bank_accounts, transferMu, call, local, calls, pre>>
    /\ UNCHANGED dirVars

DeleteExec(p) ==
    /\ pc[p] = "Delete_Exec"
    /\ \E ok \in BOOLEAN :
        IF ok
            THEN bank_accounts' = DeleteByID(call[p].id) /\ UNCHANGED local
            ELSE /\ UNCHANGED bank_accounts
                 /\ SetLocal(p, [local[p] EXCEPT !.err = ErrStorage])
    /\ Goto(p, "Return")
    /\ UNCHANGED <<bankMu, transferMu, call, calls, pre>>
    /\ UNCHANGED dirVars

\* Goroutine 1 has been handed a well-formed Transfer and goroutine 2 a
\* DeleteAccountByBankAccountID, on accounts that already hold some balance.
InitDelete ==
    \E x \in 0..MaxBalance, y \in 0..MaxBalance,
       c1 \in {c \in PairCalls : c.op = "Transfer"}, c2 \in DeleteCalls :
        /\ bank_accounts = [r \in RowIDs |->
                Row(NumberOfRow[r], IF r = 1 THEN x ELSE y)]
        /\ bankMu = NoProc
        /\ transferMu = NoProc
        /\ call = [p \in Procs |-> IF p = 1 THEN c1 ELSE IF p = 2 THEN c2 ELSE NoCall]
        /\ pc = [p \in Procs |->
                IF p = 1 THEN "Transfer_Lock" ELSE IF p = 2 THEN "Delete_Lock" ELSE "idle"]
        /\ local = [p \in Procs |-> NoLocal]
        /\ calls = 2
        /\ pre = [r \in RowIDs |-> IF r = 1 THEN x ELSE y]
        /\ build = "part_000"
        /\ InitDirectory

NextDelete ==
    \E p \in Procs :
        \/ TransferLock(p) \/ TransferSelectFrom(p) \/ TransferSelectTo(p)
        \/ TransferDebit(p) \/ TransferCredit(p)
        \/ DeleteLock(p) \/ DeleteExec(p)
        \/ Return(p)

SpecDelete == InitDelete /\ [][NextDelete]_vars

\* --------------------------------------------------------- user directory
\* The repository holds two builds of package bankapi: the one in part_000,
\* whose UserServiceImp methods take s.mu, and the one in bankapi/api.go, whose
\* methods take no lock and whose routes are not behind AuthTodo.
Builds == {"part_000", "api.go"}
UserLocks == build = "part_000"

\* User ids a request path carries (user 2 does not exist) and what the body
\* of an account creation carries: "A" is the number of row 1, "C" is free.
UserIDs == {1, 2}
BodyNumbers == {"A", "C"}
BodyBalances == {0, MaxAmount}

GetByIDCalls == [op : {"GetByID"}, id : UserIDs]
UpdateCalls == [op : {"Update"}, id : UserIDs, first_name : {"Bob"}, last_name : {"Lee"}]
InsertBankAccountCalls ==
    [op : {"InsertBankAccount"}, id : UserIDs, account_number : BodyNumbers,
     balance : BodyBalances]
UserCalls == GetByIDCalls \cup UpdateCalls \cup InsertBankAccountCalls

ErrDuplicate == "pq: duplicate key value violates unique constraint"

NoUser == [ID |-> 0, first_name |-> "", last_name |-> ""]

\* The locals of a user-service call.  bankAccount is the struct the handler
\* CreateBankAccount binds from the body and passes by pointer; the part_000
\* handler then sets its UserID from the path.
UserLocal(c) ==
    [err |-> "nil",
     user |-> NoUser,
     bankAccount |->
        IF c.op = "InsertBankAccount"
            THEN [ID |-> 0,
                  UserID |-> IF UserLocks THEN c.id ELSE 0,
                  AccountNumber |-> c.account_number,
                  Balance |-> c.balance,
                  CreatedAt |-> 0,
                  UpdatedAt |-> 0]
            ELSE [ID |-> 0, UserID |-> 0, AccountNumber |-> "", Balance |-> 0,
                  CreatedAt |-> 0, UpdatedAt |-> 0]]

\* Where GetByID starts: at its s.mu.Lock() in part_000, at its query in api.go.
GetByIDEntry == IF UserLocks THEN "GetByID_Lock" ELSE "GetByID_Select"

\* Where a user-service method starts.  InsertBankAccount of api.go starts
\* with its call of GetByID.
UserEntryLabel(op) ==
    CASE op = "GetByID" -> GetByIDEntry
      [] op = "Update" -> IF UserLocks THEN "Update_Lock" ELSE "Update_Exec"
      [] op = "InsertBankAccount" ->
            IF UserLocks THEN "InsertBankAccount_Lock" ELSE GetByIDEntry

\* time.Now(): the clock ticks when a request arrives.
Now == calls

\* account_number TEXT UNIQUE: the INSERT of a number a row already holds is
\* refused.
UniqueViolation_None(n) == FALSE

UniqueViolation(n) == \E r \in DOMAIN bank_accounts : bank_accounts[r].account_number = n

\* INSERT INTO bank_accounts ... RETURNING id: the table afterwards.
InsertRow(id, row) == (id :> row) @@ bank_accounts

\* s.mu.Lock() of GetByID, called by a handler or by Update / InsertBankAccount
\* (which in part_000 hold s.mu already: sync.Mutex is not reentrant).
GetByIDLock(p) ==
    /\ pc[p] = "GetByID_Lock"
    /\ userMu = NoProc
    /\ userMu' = p
    /\ Goto(p, "GetByID_Select")
    /\ UNCHANGED <<bank_accounts, bankMu, transferMu, call, local, calls, pre>>
    /\ UNCHANGED <<build, users, secrets, nextId>>

\* SELECT * FROM users WHERE id = $1 and the Scan; then GetByID returns to the
\* handler, to Update (which returns its result) or to InsertBankAccount.
GetByIDSelect(p) ==
    /\ pc[p] = "GetByID_Select"
    /\ \E ok \in BOOLEAN :
        IF ~ok
            THEN SetLocal(p, [local[p] EXCEPT !.err = ErrStorage]) /\ Goto(p, "User_Return")
        ELSE IF call[p].id \notin DOMAIN users
            THEN SetLocal(p, [local[p] EXCEPT !.err = ErrNoRows]) /\ Goto(p, "User_Return")
        ELSE /\ SetLocal(p, [local[p] EXCEPT !.user =
                    [ID |-> call[p].id,
                     first_name |-> users[call[p].id].first_name,
                     last_name |-> users[call[p].id].last_name]])
             /\ Goto(p, IF call[p].op = "InsertBankAccount"
                            THEN "InsertBankAccount_Insert" ELSE "User_Return")
    /\ UNCHANGED <<bank_accounts, bankMu, transferMu, call, calls, pre>>
    /\ UNCHANGED dirVars

UpdateLock(p) ==
    /\ pc[p] = "Update_Lock"
    /\ userMu = NoProc
    /\ userMu' = p
    /\ Goto(p, "Update_Exec")
    /\ UNCHANGED <<bank_accounts, bankMu, transferMu, call, local, calls, pre>>
    /\ UNCHANGED <<build, users, secrets, nextId>>

\* UPDATE users SET first_name = $2, last_name = $3 WHERE id = $1, then
\* return s.GetByID(id).
UpdateExec(p) ==
    /\ pc[p] = "Update_Exec"
    /\ \E ok \in BOOLEAN :
        IF ~ok
            THEN /\ SetLocal(p, [local[p] EXCEPT !.err = ErrStorage])
                 /\ Goto(p, "User_Return")
                 /\ UNCHANGED users
            ELSE /\ users' = [u \in DOMAIN users |->
                        IF u = call[p].id
                            THEN [first_name |-> call[p].first_name,
                                  last_name |-> call[p].last_name]
                            ELSE users[u]]
                 /\ Goto(p, GetByIDEntry)
                 /\ UNCHANGED local
    /\ UNCHANGED <<bank_accounts, bankMu, transferMu, call, calls, pre>>
    /\ UNCHANGED <<build, userMu, secrets, nextId>>

\* s.mu.Lock() of InsertBankAccount (part_000), then its call of s.GetByID.
InsertBankAccountLock(p) ==
    /\ pc[p] = "InsertBankAccount_Lock"
    /\ userMu = NoProc
    /\ userMu' = p
    /\ Goto(p, "GetByID_Lock")
    /\ UNCHANGED <<bank_accounts, bankMu, transferMu, call, local, calls, pre>>
    /\ UNCHANGED <<build, users, secrets, nextId>>

\* The rest of InsertBankAccount after GetByID found the user: the timestamps,
\* the INSERT ... RETURNING id and the Scan of the new id.  part_000 sets
\* bankAccount.Balance = 0, inserts it and scans the id into bankAccount.ID;
\* api.go inserts no balance column and scans the id into user.ID.  The
\* sequence behind id advances even when the INSERT is refused.
InsertBankAccountInsert(p) ==
    /\ pc[p] = "InsertBankAccount_Insert"
    /\ LET u == local[p].user
           ba == [local[p].bankAccount EXCEPT
                    !.CreatedAt = Now, !.UpdatedAt = Now,
                    !.Balance = IF UserLocks THEN 0 ELSE @]
           row == [account_number |-> ba.AccountNumber,
                   balance |-> 0,
                   balance_null |-> ~UserLocks,
                   user_id |-> IF UserLocks THEN ba.UserID ELSE u.ID,
                   account_name |-> IF UserLocks
                                        THEN u.first_name \o u.last_name
                                        ELSE u.first_name \o " " \o u.last_name,
                   created_at |-> Now,
                   updated_at |-> Now]
       IN \E ok \in BOOLEAN :
            IF ~ok
                THEN /\ SetLocal(p, [local[p] EXCEPT !.bankAccount = ba, !.err = ErrStorage])
                     /\ UNCHANGED <<bank_accounts, nextId>>
            ELSE IF UniqueViolation(ba.AccountNumber)
                THEN /\ SetLocal(p, [local[p] EXCEPT !.bankAccount = ba, !.err = ErrDuplicate])
                     /\ nextId' = nextId + 1
                     /\ UNCHANGED bank_accounts
            ELSE /\ bank_accounts' = InsertRow(nextId, row)
                 /\ nextId' = nextId + 1
                 /\ SetLocal(p, IF UserLocks
                        THEN [local[p] EXCEPT !.bankAccount = [ba EXCEPT !.ID = nextId]]
                        ELSE [local[p] EXCEPT !.bankAccount = ba,
                                              !.user = [u EXCEPT !.ID = nextId]])
    /\ Goto(p, "User_Return")
    /\ UNCHANGED <<bankMu, transferMu, call, calls, pre>>
    /\ UNCHANGED <<build, users, userMu, secrets>>

\* The deferred s.mu.Unlock() of the method called by the handler (part_000),
\* then the return to the handler.
UserReturn(p) ==
    /\ pc[p] = "User_Return"
    /\ userMu' = IF UserLocks THEN NoProc ELSE userMu
    /\ Goto(p, "done")
    /\ UNCHANGED <<bank_accounts, bankMu, transferMu, call, local, calls, pre>>
    /\ UNCHANGED <<build, users, secrets, nextId>>

UserWork(p) ==
    \/ GetByIDLock(p) \/ GetByIDSelect(p)
    \/ UpdateLock(p) \/ UpdateExec(p)
    \/ InsertBankAccountLock(p) \/ InsertBankAccountInsert(p)
    \/ UserReturn(p)

\* Every goroutine has been handed one user-service call by its handler, in
\* a server of either build; no other call is made.
InitUsers ==
    \E b \in Builds, cs \in [Procs -> UserCalls] :
        /\ build = b
        /\ InitDirectory
        /\ bank_accounts = [r \in RowIDs |-> Row(NumberOfRow[r], 0)]
        /\ bankMu = NoProc
        /\ transferMu = NoProc
        /\ call = cs
        /\ pc = [p \in Procs |-> UserEntryLabel(cs[p].op)]
        /\ local = [p \in Procs |-> UserLocal(cs[p])]
        /\ calls = NumProcs
        /\ pre = [r \in RowIDs |-> 0]

NextUsers == \E p \in Procs : UserWork(p)

SpecUsers == InitUsers /\ [][NextUsers]_vars

\* ---------------------------------------------------- authentication gate
\* part_000 puts AuthTodo in front of the users, bankAccounts and transfers
\* route groups; api.go routes the users group only, with no middleware.
UsesAuthTodo == build = "part_000"

UserOps == {"GetByID", "Update", "InsertBankAccount"}

Routed(op) ==
    IF build = "part_000"
        THEN op \in UserOps \cup {"Deposit", "Withdraw", "Transfer"}
        ELSE op \in UserOps

\* The user name of the request's basic-auth header: "" stands for a request
\* without the header, "k1" is stored in secrets, "k2" is not.
RequestKeys == {"", "k1", "k2"}

ErrUnauthorized == "401 Unauthorized"

ServiceEntry(op) == IF op \in UserOps THEN UserEntryLabel(op) ELSE EntryLabel(op)

\* A request arrives on a route of the running build.
Request(p) ==
    /\ pc[p] \in {"idle", "done"}
    /\ calls < MaxCalls
    /\ \E c \in UserCalls \cup AllCalls, k \in RequestKeys :
        /\ Routed(c.op)
        /\ call' = [call EXCEPT ![p] = [key |-> k] @@ c]
        /\ SetLocal(p, IF c.op \in UserOps THEN UserLocal(c) ELSE NoLocal)
        /\ Goto(p, IF UsesAuthTodo THEN "AuthTodo" ELSE ServiceEntry(c.op))
    /\ calls' = calls + 1
    /\ pre' = Balances
    /\ UNCHANGED <<bank_accounts, bankMu, transferMu>>
    /\ UNCHANGED dirVars

\* BasicAuth(), SELECT key FROM secrets WHERE key = $1 and the Scan: the
\* handler runs when the key is found, anything else aborts with 401.
AuthTodo(p) ==
    /\ pc[p] = "AuthTodo"
    /\ \E ok \in BOOLEAN :
        IF call[p].key # "" /\ ok /\ call[p].key \in secrets
            THEN Goto(p, ServiceEntry(call[p].op)) /\ UNCHANGED local
            ELSE /\ SetLocal(p, [local[p] EXCEPT !.err = ErrUnauthorized])
                 /\ Goto(p, "done")
    /\ UNCHANGED <<bank_accounts, bankMu, transferMu, call, calls, pre>>
    /\ UNCHANGED dirVars

\* A server of either build, before its first request.
InitGate ==
    /\ bank_accounts = [r \in RowIDs |-> Row(NumberOfRow[r], 0)]
    /\ bankMu = NoProc
    /\ transferMu = NoProc
    /\ pc = [p \in Procs |-> "idle"]
    /\ call = [p \in Procs |-> NoCall]
    /\ local = [p \in Procs |-> NoLocal]
    /\ calls = 0
    /\ pre = [r \in RowIDs |-> 0]
    /\ build \in Builds
    /\ InitDirectory

\* A single client: one request at a time.
NextGate == Request(1) \/ AuthTodo(1) \/ Work(1) \/ UserWork(1)

SpecGate == InitGate /\ [][NextGate]_vars

\* ----------------------------------------------------------------- claims
\* The code returns untyped errors. "Fails with <kind>" is read in the weakest
\* way, as "returns an error", so that a violation is a call that reports
\* success, never a call that fails under another name.
Failed(p) == local[p].err # "nil"
Returned(p) == pc[p] = "done"

RECURSIVE SumOver(_, _)
SumOver(f, S) ==
    IF S = {} THEN 0
    ELSE LET r == CHOOSE x \in S : TRUE IN f[r] + SumOver(f, S \ {r})
Total(f) == SumOver(f, DOMAIN f)

ExistingNumbers == {bank_accounts[r].account_number : r \in DOMAIN bank_accounts}
RowOf(n) == CHOOSE r \in DOMAIN bank_accounts : bank_accounts[r].account_number = n

\* C1: in every reachable state every stored account balance is >= 0
\* (accounts start at balance 0; any Deposit, Withdraw, Transfer calls).
C1_BalanceNonNegative ==
    \A r \in DOMAIN bank_accounts : bank_accounts[r].balance >= 0

\* C2: a Transfer between existing account numbers (from = to included),
\* successful or failing, leaves the sum of all balances as it was when the
\* call was made; a successful Deposit adds exactly its amount to the sum and
\* a successful Withdraw takes exactly its amount from it. (Transfers are
\* taken with amount > 0: what a Transfer of amount <= 0 does is C7.)
C2_SumConserved ==
    Returned(1) =>
        /\ ( /\ call[1].op = "Transfer"
             /\ {call[1].from, call[1].to} \subseteq ExistingNumbers
             /\ call[1].amount > 0 )
              => Total(Balances) = Total(pre)
        /\ (call[1].op = "Deposit" /\ ~Failed(1))
              => Total(Balances) = Total(pre) + call[1].amount
        /\ (call[1].op = "Withdraw" /\ ~Failed(1))
              => Total(Balances) = Total(pre) - call[1].amount

\* What the two calls of a pair amount to when both are applied, in either
\* order: each is an addition to balances, so the order does not matter.
Delta(c, r) ==
    CASE c.op = "Deposit" -> IF c.id = r THEN c.amount ELSE 0
      [] c.op = "Withdraw" -> IF c.id = r THEN 0 - c.amount ELSE 0
      [] c.op = "Transfer" ->
            (IF NumberOfRow[r] = c.to THEN c.amount ELSE 0)
            - (IF NumberOfRow[r] = c.from THEN c.amount ELSE 0)
      [] OTHER -> 0

BothApplied == \A r \in RowIDs : Balances[r] = pre[r] + Delta(call[1], r) + Delta(call[2], r)

\* C3: a Deposit or Withdraw that runs concurrently with a Transfer, both
\* reporting success, ends with every balance equal to the result of applying
\* both calls in some order: neither overwrites the other's update.
C3_DepositTransferLinearizable ==
    \A p \in {1, 2}, q \in {1, 2} :
        ( /\ call[p].op \in {"Deposit", "Withdraw"}
          /\ call[q].op = "Transfer"
          /\ Returned(p) /\ Returned(q)
          /\ ~Failed(p) /\ ~Failed(q) )
        => BothApplied

\* C4: a well-formed Transfer (two different existing accounts, amount > 0)
\* that reports an error has changed no balance: when the credit write fails
\* after the debit write, the source is back at its pre-operation balance
\* before the error is returned.
C4_TransferAtomic ==
    ( /\ Returned(1)
      /\ call[1].op = "Transfer"
      /\ call[1].from # call[1].to
      /\ {call[1].from, call[1].to} \subseteq ExistingNumbers
      /\ call[1].amount > 0
      /\ Failed(1) )
    => Balances = pre

\* C5: a Transfer whose from and to are the same existing account number
\* fails and leaves every balance unchanged. (Taken with a positive amount and
\* a store that does not fail, so that only the self-transfer is at issue.)
C5_SelfTransferRejected ==
    ( /\ Returned(1)
      /\ call[1].op = "Transfer"
      /\ call[1].from = call[1].to
      /\ call[1].from \in ExistingNumbers
      /\ call[1].amount > 0
      /\ local[1].err # ErrStorage )
    => (Failed(1) /\ Balances = pre)

\* C6: a Withdraw of a positive amount larger than the balance of an existing
\* account fails and leaves the stored balance as it was.
C6_OverdraftRejected ==
    ( /\ Returned(1)
      /\ call[1].op = "Withdraw"
      /\ call[1].id \in DOMAIN pre
      /\ call[1].amount > 0
      /\ pre[call[1].id] < call[1].amount )
    => (Failed(1) /\ Balances = pre)

\* C7: a Transfer with amount <= 0 fails and changes no balance; a negative
\* amount moves no money from the destination to the source. (Taken between
\* two different existing accounts and with a store that does not fail.)
C7_TransferAmountValidated ==
    ( /\ Returned(1)
      /\ call[1].op = "Transfer"
      /\ call[1].amount <= 0
      /\ call[1].from # call[1].to
      /\ {call[1].from, call[1].to} \subseteq ExistingNumbers
      /\ local[1].err # ErrStorage )
    => (Failed(1) /\ Balances = pre)

\* C8: a Deposit or Withdraw with amount <= 0 fails and leaves the stored
\* balance unchanged.
C8_AmountValidated ==
    (Returned(1) /\ call[1].op \in {"Deposit", "Withdraw"} /\ call[1].amount <= 0)
    => (Failed(1) /\ Balances = pre)

\* C9: when the N concurrent Deposit(id, a) calls have all returned, the
\* stored balance of the account is b + k*a, k the number of them that
\* reported success (b + N*a when all did), whatever the interleaving of their
\* reads and writes; no other balance changed.
Succeeded == {p \in Procs : Returned(p) /\ ~Failed(p)}
C9_ConcurrentDeposits ==
    (\A p \in Procs : Returned(p)) =>
        \A r \in RowIDs :
            Balances[r] = pre[r] +
                (IF r = call[1].id THEN Cardinality(Succeeded) * call[1].amount ELSE 0)

\* C9 witness: all N >= 2 deposits returned success on an account that held
\* b > 0, and the balance is b + N*a.
C9_Witness ==
    /\ NumProcs >= 2
    /\ Succeeded = Procs
    /\ pre[call[1].id] > 0
    /\ Balances[call[1].id] = pre[call[1].id] + NumProcs * call[1].amount

\* Goroutines 1 and 2 transfer in opposite directions between the same two
\* accounts, each source holding at least the amount to send.
OppositeTransfers ==
    /\ call[1].op = "Transfer" /\ call[2].op = "Transfer"
    /\ call[1].from = call[2].to /\ call[1].to = call[2].from
    /\ pre[RowOf(call[1].from)] >= call[1].amount
    /\ pre[RowOf(call[2].from)] >= call[2].amount

BothReturned == Returned(1) /\ Returned(2)

C10_Net ==
    ( /\ OppositeTransfers
      /\ BothReturned
      /\ local[1].err # ErrStorage /\ local[2].err # ErrStorage )
    => (~Failed(1) /\ ~Failed(2) /\ BothApplied)

\* C10: two concurrent Transfers in opposite directions between X and Y, both
\* funded, never deadlock: both eventually return, and unless the store failed
\* one of them both succeed and the balances are X - p + q and Y + p - q.
C10_OppositeTransfers == (OppositeTransfers => <>BothReturned) /\ []C10_Net

\* C10 witness: both opposite transfers returned success with different
\* amounts, and the balances are the net of both.
C10_Witness ==
    /\ OppositeTransfers
    /\ BothReturned
    /\ ~Failed(1) /\ ~Failed(2)
    /\ call[1].amount # call[2].amount
    /\ BothApplied

\* ------------------------------------------------------------------------
\* C11: no service operation suspends indefinitely; in particular
\* InsertBankAccount and Update, which call GetByID while they hold the
\* UserServiceImp mutex, eventually return.  A call that eventually returns is
\* never in a state from which no call in progress can take a step: while some
\* user-service call has not returned, some step of some call is possible.
C11_NoCallSuspends ==
    (\E p \in Procs : ~Returned(p)) => ENABLED NextUsers

\* C12: Transfer resolves both accounts by number before it writes anything.
\* A Transfer whose source number does not exist fails with NotFound (the
\* driver's "no rows" error) and leaves the destination as it was; one whose
\* destination number does not exist fails the same way and leaves the source
\* as it was.  (A store failure on a lookup is the other error it can return.)
C12_TransferResolvesFirst ==
    ( /\ Returned(1)
      /\ call[1].op = "Transfer"
      /\ local[1].err # ErrBind
      /\ \/ call[1].from \notin ExistingNumbers
         \/ call[1].to \notin ExistingNumbers )
    => ( /\ local[1].err \in {ErrNoRows, ErrStorage}
         /\ Balances = pre )

\* A funded source, a positive amount it covers, a destination that is missing.
C12_Witness ==
    /\ Returned(1)
    /\ call[1].op = "Transfer"
    /\ call[1].from \in ExistingNumbers
    /\ call[1].to \notin ExistingNumbers
    /\ call[1].amount > 0
    /\ pre[RowOf(call[1].from)] >= call[1].amount
    /\ local[1].err = ErrNoRows
    /\ Balances = pre

\* C13: a serial Transfer between two different existing accounts with
\* amount > 0, on a store that answers every statement: if the source balance
\* is >= amount it succeeds, the source ends at its balance minus amount, the
\* destination at its balance plus amount and every other account as it was;
\* otherwise it fails with InsufficientFunds ("Balance less than amount") and
\* changes no balance.
C13_SerialTransfer ==
    ( /\ Returned(1)
      /\ call[1].op = "Transfer"
      /\ local[1].err \notin {ErrBind, ErrStorage}
      /\ call[1].from # call[1].to
      /\ call[1].from \in ExistingNumbers
      /\ call[1].to \in ExistingNumbers
      /\ call[1].amount > 0 )
    => LET f == RowOf(call[1].from)
           t == RowOf(call[1].to)
       IN IF pre[f] >= call[1].amount
            THEN /\ ~Failed(1)
                 /\ Balances = [r \in DOMAIN pre |->
                        IF r = f THEN pre[r] - call[1].amount
                        ELSE IF r = t THEN pre[r] + call[1].amount
                        ELSE pre[r]]
            ELSE /\ local[1].err = ErrBalanceLess
                 /\ Balances = pre

\* A Transfer of the whole source balance that succeeded.
C13_Witness ==
    /\ Returned(1)
    /\ call[1].op = "Transfer"
    /\ ~Failed(1)
    /\ call[1].from # call[1].to
    /\ call[1].amount > 0
    /\ pre[RowOf(call[1].from)] = call[1].amount
    /\ Balances[RowOf(call[1].from)] = 0
    /\ Balances[RowOf(call[1].to)] = call[1].amount

\* C14: two operations on disjoint accounts never block each other: there is
\* no global lock.  A Deposit or Withdraw that waits at its Lock while the
\* holder of the mutex works on a different account id can take its step.
C14_DisjointAccountsDoNotBlock ==
    \A p \in Procs, q \in Procs :
        ( /\ p # q
          /\ pc[p] \in {"Deposit_Lock", "Withdraw_Lock"}
          /\ bankMu = q
          /\ call[q].id # call[p].id )
        => ENABLED Work(p)

UserLockLabels == {"GetByID_Lock", "Update_Lock", "InsertBankAccount_Lock"}

\* C15: a caller waiting for a lock never blocks forever: if it cannot acquire
\* the lock within a bounded time its operation fails with Busy.  When the
\* holder of the UserServiceImp mutex can take no step, and so never releases
\* it, a caller waiting at a Lock of that mutex can still take a step (the
\* one that gives up with Busy).
C15_WaiterTimesOut ==
    \A q \in Procs, h \in Procs :
        ( /\ pc[q] \in UserLockLabels
          /\ userMu = h
          /\ ~ENABLED UserWork(h) )
        => ENABLED UserWork(q)

RowsWithNumber(n) == {r \in DOMAIN bank_accounts : bank_accounts[r].account_number = n}

\* The creations of number n that got past their INSERT without an error.
Created(n) ==
    {p \in Procs :
        /\ pc[p] \in {"User_Return", "done"}
        /\ call[p].op = "InsertBankAccount"
        /\ call[p].account_number = n
        /\ ~Failed(p)}

\* C16: account numbers are unique across all stored accounts in every
\* reachable state, under any interleaving of creations: at most one row
\* holds a number, a creation of a number that a row already holds fails, and
\* a failed creation inserts no row (the rows holding a number are the one
\* that held it at the start plus one per creation that succeeded).
C16_AccountNumbersUnique ==
    \A n \in BodyNumbers \cup {NumberOfRow[r] : r \in RowIDs} :
        /\ Cardinality(RowsWithNumber(n)) <= 1
        /\ Cardinality(RowsWithNumber(n)) =
                Cardinality({r \in RowIDs : NumberOfRow[r] = n}) + Cardinality(Created(n))

\* Two concurrent creations of the same free number have both returned: one
\* inserted the row, the other was refused.
C16_Witness ==
    \E p \in Procs, q \in Procs :
        /\ p # q
        /\ Returned(p) /\ Returned(q)
        /\ call[p].op = "InsertBankAccount" /\ call[q].op = "InsertBankAccount"
        /\ call[p].account_number = "C" /\ call[q].account_number = "C"
        /\ ~Failed(p)
        /\ local[q].err = ErrDuplicate
        /\ Cardinality(RowsWithNumber("C")) = 1

\* C17: every account that creation stores has balance 0 at creation,
\* whatever the request body carried, and the record returned to the caller
\* also shows balance 0.
C17_CreatedBalanceZero ==
    /\ \A r \in DOMAIN bank_accounts \ RowIDs :
            ~bank_accounts[r].balance_null /\ bank_accounts[r].balance = 0
    /\ \A p \in Procs :
            (Returned(p) /\ call[p].op = "InsertBankAccount" /\ ~Failed(p))
                => local[p].bankAccount.Balance = 0

MutatingOps == {"Deposit", "Withdraw", "Transfer", "InsertBankAccount"}

\* C18: no deposit, withdraw, account-create or transfer request reaches its
\* service operation, and so changes a balance or an account, unless the key
\* it carries is stored in secrets; a request without a matching key is
\* rejected and changes nothing.
C18_KeyRequired ==
    \A p \in Procs :
        /\ ( /\ call[p].op \in MutatingOps
             /\ pc[p] \notin {"idle", "AuthTodo"}
             /\ local[p].err # ErrUnauthorized )
           => call[p].key \in secrets
        /\ (Returned(p) /\ local[p].err = ErrUnauthorized)
           => (DOMAIN bank_accounts = DOMAIN pre /\ Balances = pre)

\* The status DepositByID and WithdrawByID answer with: 400 when the body does
\* not bind, 500 when the service returns any error, 200 otherwise.
HandlerStatus(p) ==
    IF local[p].err = ErrBind THEN 400
    ELSE IF local[p].err # "nil" THEN 500
    ELSE 200

\* The status the documented mapping gives the same request.
MappedStatus(p) ==
    IF local[p].err = ErrBind \/ call[p].amount <= 0 THEN 400
    ELSE IF local[p].err = ErrStorage THEN 500
    ELSE IF call[p].id \notin DOMAIN bank_accounts THEN 404
    ELSE 200

\* C19: the deposit and withdraw handlers map each failure kind to its own
\* status: a malformed body or InvalidAmount gives 400, NotFound gives 404,
\* only a storage failure gives 500, success gives 200.  (Taken for bodies
\* that do not bind and for bodies with amount > 0: the service has no
\* InvalidAmount result to map.)
C19_StatusMapping ==
    ( /\ Returned(1)
      /\ call[1].op \in {"Deposit", "Withdraw"}
      /\ local[1].err = ErrBind \/ call[1].amount > 0 )
    => HandlerStatus(1) = MappedStatus(1)

\* C20: every successful balance mutation (deposit, withdraw, both sides of a
\* transfer) sets the stored updated_at of each account it changes to the
\* time of the mutation, later than it was before, and leaves created_at as
\* it was.  (Taken for calls with amount > 0.)
C20_UpdatedAtSet ==
    [][\A r \in DOMAIN bank_accounts :
          ( /\ call[1].amount > 0
            /\ bank_accounts'[r].balance # bank_accounts[r].balance )
            => /\ bank_accounts'[r].updated_at = Now
               /\ bank_accounts'[r].updated_at > bank_accounts[r].updated_at
               /\ bank_accounts'[r].created_at = bank_accounts[r].created_at]_vars

\* C21: a Deposit(id, a) that succeeds with no concurrent operation, on an
\* account with balance b, leaves the stored balance of that account at
\* b + a, returns a record whose balance is b + a and leaves every other
\* account's balance as it was; a Deposit on an id that does not exist fails
\* and writes nothing.
C21_DepositFrame ==
    (Returned(1) /\ call[1].op = "Deposit")
    => /\ ~Failed(1) =>
            /\ call[1].id \in DOMAIN pre
            /\ Balances = [r \in DOMAIN pre |->
                    IF r = call[1].id THEN pre[r] + call[1].amount ELSE pre[r]]
            /\ local[1].balance = pre[call[1].id] + call[1].amount
       /\ call[1].id \notin DOMAIN pre => (Failed(1) /\ Balances = pre)

\* A successful Deposit of a > 0 on an account that held b > 0.
C21_Witness ==
    /\ Returned(1)
    /\ call[1].op = "Deposit"
    /\ ~Failed(1)
    /\ call[1].amount > 0
    /\ pre[call[1].id] > 0
    /\ Balances[call[1].id] = pre[call[1].id] + call[1].amount
    /\ local[1].balance = Balances[call[1].id]

\* C22: a Transfer that reports success has credited the destination, also
\* when DeleteAccountByBankAccountID runs concurrently: the credit step of a
\* Transfer that goes on to return success leaves an existing row with the
\* destination number holding the balance the Transfer read plus the amount
\* (the amount is not dropped by a delete that came between the Transfer's
\* reads and its credit write).
C22_SuccessMeansCredited ==
    [][\A p \in Procs :
          ( /\ pc[p] = "Transfer_Credit"
            /\ pc'[p] = "Return"
            /\ local'[p].err = "nil" )
          => \E r \in DOMAIN bank_accounts' :
                /\ bank_accounts'[r].account_number = call[p].to
                /\ bank_accounts'[r].balance = local[p].to_balance + call[p].amount]_vars

\* C23: when account creation succeeds, the record returned to the caller
\* carries the id the store assigned to the inserted row; creation for a user
\* id that does not exist fails and inserts no account.
C23_ReturnedIdIsRowId ==
    \A p \in Procs :
        (Returned(p) /\ call[p].op = "InsertBankAccount")
        => /\ ~Failed(p) =>
                \E r \in DOMAIN bank_accounts \ RowIDs :
                    /\ r = local[p].bankAccount.ID
                    /\ bank_accounts[r].account_number = call[p].account_number
           /\ call[p].id \notin DOMAIN users =>
                /\ Failed(p)
                /\ \A r \in DOMAIN bank_accounts : bank_accounts[r].user_id # call[p].id

====
